---- MODULE Spec2Model ----
(***************************************************************************)
(* A model of SimpleVector<int> (simple_vector.h) on top of ArrayPtr<int>  *)
(* (array_ptr.h).  The heap maps an address to the cells of the array      *)
(* allocated there; a SimpleVector is its three fields data_, size_ and    *)
(* capacity_.  An access outside the allocated cells is undefined          *)
(* behaviour: a write outside is lost and a read outside yields an         *)
(* arbitrary value, and the operation is marked (oob).  A second delete[]  *)
(* of one array is undefined behaviour as well: the exception that was     *)
(* under way either goes on to the caller or the process is aborted.       *)
(***************************************************************************)
EXTENDS Integers, Sequences, FiniteSets, TLC

\* ---- bounds -------------------------------------------------------------
MaxCap == 4                 \* largest array a single "new Type[n]" may create
MaxHeap == 4                \* most cells two living objects hold together
Values == {0, 1}            \* the element type: int restricted to two values
Default == 0                \* Type() for int
Vecs == {"a", "b"}          \* the two SimpleVector objects of the model
Addrs == {1, 2, 3}          \* heap addresses (two vectors and one staging buffer)
NullPtr == 0                \* nullptr

Ptrs == {"p", "q"}          \* the two ArrayPtr objects of the model

VARIABLES heap, vec, last, ptr
vars == <<heap, vec, last, ptr>>

Other(t) == CHOOSE o \in Vecs : o # t

\* ---- ArrayPtr -----------------------------------------------------------
\* heap[p] = << >> : nothing is allocated at p (new Type[n] has n >= 1).
FreeAddr(h) == CHOOSE p \in Addrs : h[p] = << >> /\ \A q \in Addrs : h[q] = << >> => p <= q

\* explicit ArrayPtr(size_t size): null for size 0, else size default cells
ArrayPtrCtor(h, size) ==
    IF size = 0 THEN [heap |-> h, raw_ptr_ |-> NullPtr]
    ELSE LET p == FreeAddr(h)
         IN  [heap |-> [h EXCEPT ![p] = [j \in 1..size |-> Default]], raw_ptr_ |-> p]

\* ~ArrayPtr(): delete[] raw_ptr_
ArrayPtrDtor(h, raw_ptr_) ==
    IF raw_ptr_ = NullPtr THEN h ELSE [h EXCEPT ![raw_ptr_] = << >>]

\* ArrayPtr(ArrayPtr&& other) noexcept : raw_ptr_(std::move(other.Get()));
\* an ArrayPtr object is [live, raw_ptr_]
ArrayPtrMoveCtor(other) ==
    [this |-> [live |-> TRUE, raw_ptr_ |-> other.raw_ptr_], other |-> other]

\* ArrayPtr& operator=(ArrayPtr&& other); same: this == &other
ArrayPtrMoveAssign(this, other, same) ==
    IF same THEN [this |-> this, other |-> other]
    ELSE [this |-> [this EXCEPT !.raw_ptr_ = other.raw_ptr_], other |-> other]

\* Type* Release() noexcept
ArrayPtrRelease(this) ==
    [ret |-> this.raw_ptr_, this |-> [this EXCEPT !.raw_ptr_ = NullPtr]]

\* void swap(ArrayPtr& other) noexcept
ArrayPtrSwap(this, other) ==
    [this |-> [this EXCEPT !.raw_ptr_ = other.raw_ptr_],
     other |-> [other EXCEPT !.raw_ptr_ = this.raw_ptr_]]

\* explicit operator bool() const
ArrayPtrBool(this) == IF this.raw_ptr_ = NullPtr THEN FALSE ELSE TRUE

\* Type* Get() const noexcept
ArrayPtrGet(this) == this.raw_ptr_

\* ---- access to the cells of a vector ------------------------------------
\* A machine state m is the heap together with the fields of *this.
Cells(h, p) == IF p = NullPtr THEN << >> ELSE h[p]
Alloc(m) == Len(Cells(m.heap, m.data_))

\* data_[j] read: inside the allocation the cell, outside it garbage g[j]
ReadAt(m, j, g) == IF j < Alloc(m) THEN m.heap[m.data_][j + 1] ELSE g[j]

\* data_[j] = x
WriteAt(m, j, x) ==
    IF j < Alloc(m) THEN [m EXCEPT !.heap[m.data_][j + 1] = x]
    ELSE [m EXCEPT !.oob = TRUE]

\* std::move / std::copy / std::copy_backward of src[lo, hi) to dst[k, ...):
\* the cells of dst afterwards (writes past the end of dst are lost)
Transfer(dst, k, src, lo, hi, g) ==
    [j \in 1..Len(dst) |->
        IF (j - 1 >= k) /\ (j - 1 < k + (hi - lo))
        THEN ReadAt(src, lo + (j - 1 - k), g)
        ELSE dst[j]]

\* the transfer above touches a cell outside src's or dst's allocation
TransferOob(dstLen, k, src, lo, hi) ==
    (hi > lo) /\ ((hi > Alloc(src)) \/ (k + (hi - lo) > dstLen))

\* ---- SimpleVector -------------------------------------------------------
Empty(h) == [heap |-> h, data_ |-> NullPtr, size_ |-> 0, capacity_ |-> 0,
             oob |-> FALSE, ret |-> -1]

\* Reserve with the last element left behind: std::move(begin(), end() - 1, ...)
ReserveDropsLast(m, new_capacity, g) ==
    IF new_capacity <= m.capacity_ THEN m
    ELSE LET copy == ArrayPtrCtor(m.heap, new_capacity)
             moved == Transfer(Cells(copy.heap, copy.raw_ptr_), 0, m, 0, m.size_ - 1, g)
             h1 == [copy.heap EXCEPT ![copy.raw_ptr_] = moved]
         IN  [m EXCEPT !.heap = ArrayPtrDtor(h1, m.data_),
                       !.data_ = copy.raw_ptr_,
                       !.capacity_ = new_capacity]

\* void Reserve(size_t new_capacity)
Reserve(m, new_capacity, g) ==
    IF new_capacity <= m.capacity_ THEN m
    ELSE LET copy == ArrayPtrCtor(m.heap, new_capacity)
             moved == Transfer(Cells(copy.heap, copy.raw_ptr_), 0, m, 0, m.size_, g)
             h1 == [copy.heap EXCEPT ![copy.raw_ptr_] = moved]
         IN  [m EXCEPT !.heap = ArrayPtrDtor(h1, m.data_),
                       !.data_ = copy.raw_ptr_,
                       !.capacity_ = new_capacity,
                       !.oob = m.oob \/ TransferOob(new_capacity, 0, m, 0, m.size_)]

\* explicit SimpleVector(size_t size)
CtorSized(h, size) ==
    [Reserve(Empty(h), size, << >>) EXCEPT !.size_ = size, !.capacity_ = size]

\* SimpleVector(size_t size, const Type& value)
CtorFill(h, size, value) ==
    LET m == CtorSized(h, size)
    IN  IF size = 0 THEN m
        ELSE [m EXCEPT !.heap[m.data_] = [j \in 1..size |-> value]]

\* SimpleVector(std::initializer_list<Type> init)
CtorList(h, init) ==
    LET data == ArrayPtrCtor(h, Len(init))
    IN  [heap |-> IF Len(init) = 0 THEN h
                  ELSE [data.heap EXCEPT ![data.raw_ptr_] = init],
         data_ |-> data.raw_ptr_, size_ |-> Len(init), capacity_ |-> Len(init),
         oob |-> FALSE, ret |-> -1]

\* SimpleVector(ReserveProxyObj other)
CtorReserve(h, capacity_to_reserve) ==
    [Reserve(Empty(h), capacity_to_reserve, << >>) EXCEPT !.size_ = 0]

\* void PushBack(const Type& item)
PushBackCopy(m, item, g) ==
    IF m.size_ < m.capacity_
    THEN [WriteAt(m, m.size_, item) EXCEPT !.size_ = m.size_ + 1]
    ELSE LET r == Reserve(m, m.size_ + 1, g)
         IN  [WriteAt(r, r.size_, item) EXCEPT !.size_ = r.size_ + 1]

\* PushBack(Type&&) growing to size_ * 2, without the + 1
PushBackMoveDoubles(m, item, g) ==
    IF m.size_ < m.capacity_
    THEN [WriteAt(m, m.size_, item) EXCEPT !.size_ = m.size_ + 1]
    ELSE LET r == Reserve(m, m.size_ * 2, g)
         IN  [WriteAt(r, r.size_, item) EXCEPT !.size_ = r.size_ + 1]

\* void PushBack(Type&& item)
PushBackMove(m, item, g) ==
    IF m.size_ < m.capacity_
    THEN [WriteAt(m, m.size_, item) EXCEPT !.size_ = m.size_ + 1]
    ELSE LET r == Reserve(m, m.size_ * 2 + 1, g)
         IN  [WriteAt(r, r.size_, item) EXCEPT !.size_ = r.size_ + 1]

\* void Resize(size_t new_size)
Resize(m, new_size, g) ==
    IF new_size < m.size_ THEN [m EXCEPT !.size_ = new_size]
    ELSE LET copy == ArrayPtrCtor(m.heap, new_size)
             moved == Transfer(Cells(copy.heap, copy.raw_ptr_), 0, m, 0, m.size_, g)
             h1 == IF copy.raw_ptr_ = NullPtr THEN copy.heap
                   ELSE [copy.heap EXCEPT ![copy.raw_ptr_] = moved]
         IN  [m EXCEPT !.heap = ArrayPtrDtor(h1, m.data_),
                       !.data_ = copy.raw_ptr_,
                       !.size_ = new_size,
                       !.capacity_ = new_size,
                       !.oob = m.oob \/ TransferOob(new_size, 0, m, 0, m.size_)]

\* Iterator SecureInsert(ConstIterator pos, const Type& value)
\* The shift and the store are done in data_, then data_ is swapped with the
\* fresh buffer copy, and the destructor of copy frees the shifted buffer.
SecureInsertCopy(m, insert_pos, value, g) ==
    LET copy == ArrayPtrCtor(m.heap, m.capacity_)
        m0 == [m EXCEPT !.heap = copy.heap]
        shifted == Transfer(Cells(m0.heap, m0.data_), insert_pos + 1,
                            m0, insert_pos, m0.size_, g)
        m1 == IF m0.data_ = NullPtr THEN m0
              ELSE [m0 EXCEPT !.heap[m0.data_] = shifted]
        m2 == WriteAt(m1, insert_pos, value)
    IN  [m2 EXCEPT !.heap = ArrayPtrDtor(m2.heap, m2.data_),
                   !.data_ = copy.raw_ptr_,
                   !.size_ = m2.size_ + 1,
                   !.ret = insert_pos,
                   !.oob = m2.oob \/ TransferOob(Alloc(m0), insert_pos + 1,
                                                 m0, insert_pos, m0.size_)]

\* Iterator SecureInsert(ConstIterator pos, Type&& value)
SecureInsertMove(m, insert_pos, value, g) ==
    LET shifted == Transfer(Cells(m.heap, m.data_), insert_pos + 1,
                            m, insert_pos, m.size_, g)
        m1 == IF m.data_ = NullPtr THEN m
              ELSE [m EXCEPT !.heap[m.data_] = shifted]
        m2 == WriteAt(m1, insert_pos, value)
    IN  [m2 EXCEPT !.size_ = m2.size_ + 1,
                   !.ret = insert_pos,
                   !.oob = m2.oob \/ TransferOob(Alloc(m), insert_pos + 1,
                                                 m, insert_pos, m.size_)]

\* Iterator Insert(ConstIterator pos, const Type& value), pos = begin() + i
InsertCopy(m, i, value, g) ==
    IF i = m.size_
    THEN LET r == PushBackCopy(m, value, g)
         IN  [r EXCEPT !.ret = r.size_ - 1]
    ELSE IF m.size_ < m.capacity_
    THEN SecureInsertCopy(m, i, value, g)
    ELSE SecureInsertCopy(Resize(m, m.size_ + 1, g), i, value, g)

\* Iterator Insert(ConstIterator pos, Type&& value), pos = begin() + i
InsertMove(m, i, value, g) ==
    IF i = m.size_
    THEN LET r == PushBackMove(m, value, g)
         IN  [r EXCEPT !.ret = r.size_ - 1]
    ELSE IF m.size_ < m.capacity_
    THEN SecureInsertMove(m, i, value, g)
    ELSE SecureInsertMove(Reserve(m, m.size_ + 1, g), i, value, g)

\* void PopBack() noexcept
PopBack(m) == [m EXCEPT !.size_ = m.size_ - 1]

\* Iterator Erase(ConstIterator pos), pos = begin() + erase_pos
Erase(m, erase_pos, g) ==
    LET copy == ArrayPtrCtor(m.heap, m.size_)
        head == Transfer(Cells(copy.heap, copy.raw_ptr_), 0, m, 0, erase_pos, g)
        tail == Transfer(head, erase_pos, m, erase_pos + 1, m.size_, g)
        h1 == IF copy.raw_ptr_ = NullPtr THEN copy.heap
              ELSE [copy.heap EXCEPT ![copy.raw_ptr_] = tail]
    IN  [m EXCEPT !.heap = ArrayPtrDtor(h1, m.data_),
                  !.data_ = copy.raw_ptr_,
                  !.size_ = m.size_ - 1,
                  !.ret = erase_pos,
                  !.oob = m.oob \/ TransferOob(m.size_, 0, m, 0, erase_pos)
                                \/ TransferOob(m.size_, erase_pos, m, erase_pos + 1, m.size_)]

\* void Clear() noexcept
Clear(m) == [m EXCEPT !.size_ = 0]

\* Type& operator[](size_t index) used as  v[index] = value
SetElem(m, index, value) == WriteAt(m, index, value)

\* Type& At(size_t index): thrown is std::out_of_range, else value is what
\* the returned reference refers to
At(m, index, g) ==
    IF index >= m.size_
    THEN [thrown |-> TRUE, value |-> Default, oob |-> FALSE]
    ELSE [thrown |-> FALSE, value |-> ReadAt(m, index, g), oob |-> index >= Alloc(m)]

\* const Type& At(size_t index) const
AtConst(m, index, g) ==
    IF index >= m.size_
    THEN [thrown |-> TRUE, value |-> Default, oob |-> FALSE]
    ELSE [thrown |-> FALSE, value |-> ReadAt(m, index, g), oob |-> index >= Alloc(m)]

\* SimpleVector(const SimpleVector& other); other is a machine state on the
\* same heap as the object under construction
CtorCopy(other, g) ==
    LET copy == ArrayPtrCtor(other.heap, other.capacity_)
        copied == Transfer(Cells(copy.heap, copy.raw_ptr_), 0, other, 0, other.size_, g)
        h1 == IF copy.raw_ptr_ = NullPtr THEN copy.heap
              ELSE [copy.heap EXCEPT ![copy.raw_ptr_] = copied]
    IN  [heap |-> h1, data_ |-> copy.raw_ptr_,
         size_ |-> other.size_, capacity_ |-> other.capacity_,
         oob |-> TransferOob(other.capacity_, 0, other, 0, other.size_),
         ret |-> -1]

\* swap without std::swap(size_, other.size_)
SwapKeepsSize(this, other) ==
    [this |-> [other EXCEPT !.size_ = this.size_],
     other |-> [this EXCEPT !.size_ = other.size_]]

\* void swap(SimpleVector& other) noexcept; both objects as [data_, size_, capacity_]
Swap(this, other) == [this |-> other, other |-> this]

\* ---- operations that throw ---------------------------------------------
\* The point of failure f: 0 is the allocation new Type[n] throwing, k >= 1
\* the k-th transfer (copy or move assignment) of an element throwing.
\* An element that was moved from keeps its value.

\* the state m in which the call has thrown; twice: an array was deleted twice
Threw(m, twice) ==
    [heap |-> m.heap, data_ |-> m.data_, size_ |-> m.size_, capacity_ |-> m.capacity_,
     oob |-> m.oob, ret |-> m.ret, twice |-> twice]

\* catch (...) { copy.~ArrayPtr(); throw; } and then the destructor of copy
\* at the end of its scope: delete[] copy.raw_ptr_ two times
Caught(m, copy) ==
    Threw([m EXCEPT !.heap = ArrayPtrDtor(copy.heap, copy.raw_ptr_)],
          copy.raw_ptr_ # NullPtr)

\* Reserve(new_capacity) throws at f
ReserveThrows(m, new_capacity, f, g) ==
    IF f = 0 THEN Threw(m, FALSE)
    ELSE Caught([m EXCEPT !.oob = m.oob \/ TransferOob(new_capacity, 0, m, 0, f)],
                ArrayPtrCtor(m.heap, new_capacity))

\* Reserve(new_capacity) can throw at f
ReserveCanThrow(m, new_capacity, f) ==
    new_capacity > m.capacity_ /\ f <= m.size_

\* Resize(new_size) throws at f
ResizeThrows(m, new_size, f, g) ==
    IF f = 0 THEN Threw(m, FALSE)
    ELSE Caught([m EXCEPT !.oob = m.oob \/ TransferOob(new_size, 0, m, 0, f)],
                ArrayPtrCtor(m.heap, new_size))

ResizeCanThrow(m, new_size, f) ==
    new_size >= m.size_ /\ f <= m.size_ /\ (f = 0 => new_size > 0)

\* SimpleVector(const SimpleVector& other) throws at f: the heap afterwards,
\* no object has been constructed
CtorCopyThrows(other, f, g) ==
    IF f = 0 THEN Threw(other, FALSE)
    ELSE Caught([other EXCEPT !.oob = TransferOob(other.capacity_, 0, other, 0, f)],
                ArrayPtrCtor(other.heap, other.capacity_))

CtorCopyCanThrow(other, f) ==
    f <= other.size_ /\ (f = 0 => other.capacity_ > 0)

\* PushBack(const Type& item) throws at f; f = size_ + 1 is the assignment
\* data_[size_++] = item throwing, after size_ was incremented
PushBackCopyThrows(m, item, f, g) ==
    IF m.size_ < m.capacity_
    THEN Threw([m EXCEPT !.size_ = m.size_ + 1, !.oob = m.size_ >= Alloc(m)], FALSE)
    ELSE IF f <= m.size_ THEN ReserveThrows(m, m.size_ + 1, f, g)
    ELSE LET r == Reserve(m, m.size_ + 1, g)
         IN  Threw([r EXCEPT !.size_ = r.size_ + 1], FALSE)

PushBackCopyCanThrow(m, f) ==
    IF m.size_ < m.capacity_ THEN f = m.size_ + 1 ELSE f <= m.size_ + 1

\* SecureInsert(pos, const Type& value) throws at f: f = 0 is the allocation
\* of copy, f = k the k-th assignment of std::copy_backward (from the end
\* down), f = size_ - insert_pos + 1 the assignment data_[insert_pos] = value
SecureInsertCopyThrows(m, insert_pos, value, f, g) ==
    IF f = 0 THEN Threw(m, FALSE)
    ELSE LET copy == ArrayPtrCtor(m.heap, m.capacity_)
             m0 == [m EXCEPT !.heap = copy.heap]
             from == m0.size_ - (f - 1)
             shifted == Transfer(Cells(m0.heap, m0.data_), from + 1, m0, from, m0.size_, g)
             m1 == IF m0.data_ = NullPtr THEN m0
                   ELSE [m0 EXCEPT !.heap[m0.data_] = shifted]
         IN  Caught([m1 EXCEPT !.oob = m.oob \/ TransferOob(Alloc(m0), from + 1,
                                                            m0, from, m0.size_)],
                    [heap |-> m1.heap, raw_ptr_ |-> copy.raw_ptr_])

SecureInsertCopyCanThrow(m, insert_pos, f) ==
    f <= m.size_ - insert_pos + 1 /\ (f = 0 => m.capacity_ > 0)

\* Insert(pos, const Type& value) throws; stage 1 is the first call it makes
\* (PushBack or Resize), stage 2 the call of SecureInsert after a Resize
InsertCopyThrows(m, i, value, stage, f, g) ==
    IF i = m.size_ THEN PushBackCopyThrows(m, value, f, g)
    ELSE IF m.size_ < m.capacity_ THEN SecureInsertCopyThrows(m, i, value, f, g)
    ELSE IF stage = 1 THEN ResizeThrows(m, m.size_ + 1, f, g)
    ELSE SecureInsertCopyThrows(Resize(m, m.size_ + 1, g), i, value, f, g)

InsertCopyCanThrow(m, i, stage, f, g) ==
    IF i = m.size_ THEN stage = 1 /\ PushBackCopyCanThrow(m, f)
    ELSE IF m.size_ < m.capacity_ THEN stage = 1 /\ SecureInsertCopyCanThrow(m, i, f)
    ELSE IF stage = 1 THEN ResizeCanThrow(m, m.size_ + 1, f)
    ELSE SecureInsertCopyCanThrow(Resize(m, m.size_ + 1, g), i, f)

\* Erase(pos) throws at f
EraseThrows(m, erase_pos, f, g) ==
    IF f = 0 THEN Threw(m, FALSE)
    ELSE Caught([m EXCEPT !.oob = m.oob \/
                              (IF f <= erase_pos THEN f - 1 ELSE f) >= Alloc(m)],
                ArrayPtrCtor(m.heap, m.size_))

EraseCanThrow(m, erase_pos, f) == f <= m.size_ - 1

\* ---- comparison operators ---------------------------------------------
\* what an iteration over [begin(), end()) of m reads
Range(m, g) == [j \in 1..m.size_ |-> ReadAt(m, j - 1, g)]

\* std::lexicographical_compare(first1, last1, first2, last2) on the ranges
\* x and y: the loop from offset k on
RECURSIVE LexFrom(_, _, _)
LexFrom(x, y, k) ==
    IF k > Len(x) \/ k > Len(y) THEN (k > Len(x)) /\ (k <= Len(y))
    ELSE IF x[k] < y[k] THEN TRUE
    ELSE IF y[k] < x[k] THEN FALSE
    ELSE LexFrom(x, y, k + 1)

LexicographicalCompare(x, y) == LexFrom(x, y, 1)

\* operator<, with lhs and rhs as the ranges read from the two vectors
OpLess(lhs, rhs) == LexicographicalCompare(lhs, rhs)

\* operator==
OpEqual(lhs, rhs) == ~OpLess(lhs, rhs) /\ ~OpLess(rhs, lhs)

\* operator!=
OpNotEqual(lhs, rhs) == ~OpEqual(lhs, rhs)

\* operator<=
OpLessEq(lhs, rhs) == OpLess(lhs, rhs) \/ OpEqual(rhs, lhs)

\* operator>
OpGreater(lhs, rhs) == LexicographicalCompare(rhs, lhs)

\* operator>=
OpGreaterEq(lhs, rhs) == ~OpLess(lhs, rhs) \/ OpEqual(rhs, lhs)

\* ---- the two objects ----------------------------------------------------
NoVec == [live |-> FALSE, data_ |-> NullPtr, size_ |-> 0, capacity_ |-> 0]
Fields(m) == [live |-> TRUE, data_ |-> m.data_, size_ |-> m.size_,
              capacity_ |-> m.capacity_]

\* the machine state of object t in the current state
M(t) == [heap |-> heap, data_ |-> vec[t].data_, size_ |-> vec[t].size_,
         capacity_ |-> vec[t].capacity_, oob |-> FALSE, ret |-> -1]

\* the values a read of the cells [Alloc, size_) outside the allocation may give
Garbage(t) == [Alloc(M(t))..(vec[t].size_ - 1) -> Values]

\* the model's bounds: no array is larger than MaxCap, and two living objects
\* hold at most MaxHeap cells together
HeapCells(h) == Len(h[1]) + Len(h[2]) + Len(h[3])
Fits(h, v) ==
    /\ \A p \in Addrs : Len(h[p]) <= MaxCap
    /\ (v["a"].live /\ v["b"].live) =>
          /\ v["a"].capacity_ + v["b"].capacity_ <= MaxHeap
          /\ HeapCells(h) <= MaxHeap

\* Addresses are opaque: the program only compares them with each other and
\* with nullptr.  The heap is kept in the form where the buffer of a is at
\* address 1, the buffer of b (when it is another one) at address 2 and an
\* array that neither of them holds at address 3.
Canon(h, v) ==
    LET pa == v["a"].data_
        pb == v["b"].data_
        rest == {p \in Addrs : h[p] # << >> /\ p # pa /\ p # pb}
        na == IF pa = NullPtr THEN NullPtr ELSE 1
        nb == IF pb = NullPtr THEN NullPtr ELSE IF pb = pa THEN 1 ELSE 2
    IN  [heap |-> [p \in Addrs |->
                     CASE p = 1 -> Cells(h, pa)
                       [] p = 2 -> IF pb = pa THEN << >> ELSE Cells(h, pb)
                       [] p = 3 -> IF rest = {} THEN << >> ELSE h[CHOOSE q \in rest : TRUE]],
         vec |-> [v EXCEPT !["a"].data_ = na, !["b"].data_ = nb]]

\* the process has not been aborted
Running == last.exc # "abort"

\* the next state is the heap h and the objects v
Becomes(h, v) ==
    /\ Running
    /\ \E c \in {Canon(h, v)} : Fits(c.heap, c.vec) /\ heap' = c.heap /\ vec' = c.vec
    /\ ptr' = ptr

BoundedSeq(n) == UNION {[1..k -> Values] : k \in 0..n}

\* what is remembered of the last operation: its name, its object, whether
\* the object was full (size_ >= capacity_) before it, whether it touched
\* a cell outside an allocation, how it ended (exc: "none" it returned,
\* "thrown" it threw to its caller, "abort" the process was aborted) and
\* whether it deleted an array a second time
Record(op, t, r) ==
    [op |-> op, t |-> t, full |-> vec[t].size_ >= vec[t].capacity_, oob |-> r.oob,
     exc |-> "none", twice |-> FALSE]

\* the operation op on object t has the result res
Commit(op, t, res) ==
    \E r \in {res} :
        /\ Becomes(r.heap, [vec EXCEPT ![t] = Fields(r)])
        /\ last' = Record(op, t, r)

\* the results of the constructors that take no other vector
FreshCtors(h) ==
    [op : {"Default"}, r : {Empty(h)}]
    \cup {[op |-> "Sized", r |-> CtorSized(h, n)] : n \in 0..MaxCap}
    \cup {[op |-> "Fill", r |-> CtorFill(h, c[1], c[2])] : c \in (0..MaxCap) \X Values}
    \cup {[op |-> "List", r |-> CtorList(h, init)] : init \in BoundedSeq(MaxCap)}
    \cup {[op |-> "ReserveHint", r |-> CtorReserve(h, n)] : n \in 0..MaxCap}

\* an ArrayPtr object that is not constructed
NoPtr == [live |-> FALSE, raw_ptr_ |-> NullPtr]

Init ==
    \E c \in FreshCtors([p \in Addrs |-> << >>]) :
        /\ ptr = [x \in Ptrs |-> NoPtr]
        /\ heap = c.r.heap
        /\ vec = [t \in Vecs |-> IF t = "a" THEN Fields(c.r) ELSE NoVec]
        /\ last = [op |-> c.op, t |-> "a", full |-> TRUE, oob |-> FALSE,
                   exc |-> "none", twice |-> FALSE]

\* ---- actions: one per public operation ----------------------------------
DoConstruct(t) ==
    /\ ~vec[t].live
    /\ \E c \in FreshCtors(heap) : Commit(c.op, t, c.r)

\* SimpleVector(const SimpleVector& other)
DoCtorCopy(t) ==
    /\ ~vec[t].live /\ vec[Other(t)].live
    /\ \E g \in Garbage(Other(t)) :
         Commit("CtorCopy", t, CtorCopy(M(Other(t)), g))

\* SimpleVector& operator=(const SimpleVector& rhs), called as  t = rhs:
\* nothing when this == &rhs, else SimpleVector copy(rhs); swap(copy); and copy
\* is destroyed with the old buffer
AssignCopyAt(t, rhs, g) ==
    /\ vec[t].live /\ vec[rhs].live
    /\ IF rhs = t
       THEN Commit("AssignCopy", t, M(t))
       ELSE LET copy == CtorCopy(M(rhs), g)
            IN  Commit("AssignCopy", t,
                       [copy EXCEPT !.heap = ArrayPtrDtor(copy.heap, vec[t].data_)])

DoAssignCopy(t) == \E rhs \in Vecs : \E g \in Garbage(rhs) : AssignCopyAt(t, rhs, g)

\* the two objects exchange their fields, the heap is untouched
Exchange(op, t, this) ==
    /\ LET s == Swap(this, vec[Other(t)])
       IN  Becomes(heap, [vec EXCEPT ![t] = s.this, ![Other(t)] = s.other])
    /\ last' = Record(op, t, Empty(heap))

\* void swap(SimpleVector& other) noexcept, this != &other
DoSwap(t) ==
    /\ vec[t].live /\ vec[Other(t)].live
    /\ Exchange("Swap", t, vec[t])

\* move assignment that frees the target's buffer, takes the fields of rhs
\* and leaves rhs empty, without the test this != &rhs
AssignMoveSteals(t, rhs) ==
    /\ vec[t].live /\ vec[rhs].live
    /\ Becomes(ArrayPtrDtor(heap, vec[t].data_),
               [vec EXCEPT ![t] = vec[rhs], ![rhs] = Fields(Empty(heap))])
    /\ last' = Record("AssignMove", t, Empty(heap))

\* SimpleVector& operator=(SimpleVector&& rhs) noexcept, called as
\* t = std::move(rhs): nothing when this == &rhs, else swap(rhs)
AssignMoveAt(t, rhs) ==
    /\ vec[t].live /\ vec[rhs].live
    /\ IF rhs = t
       THEN Commit("AssignMove", t, M(t))
       ELSE Exchange("AssignMove", t, vec[t])

DoAssignMove(t) == \E rhs \in Vecs : AssignMoveAt(t, rhs)

\* SimpleVector(SimpleVector&& other) noexcept: *this = std::move(other)
DoCtorMove(t) ==
    /\ ~vec[t].live /\ vec[Other(t)].live
    /\ Exchange("CtorMove", t, Fields(Empty(heap)))

\* ~SimpleVector(): the destructor of data_
DoDestroy(t) ==
    /\ vec[t].live
    /\ Becomes(ArrayPtrDtor(heap, vec[t].data_), [vec EXCEPT ![t] = NoVec])
    /\ last' = Record("Destroy", t, Empty(heap))

\* v.PushBack(x) with an lvalue x; g is what reads outside the allocation give
PushBackCopyAt(t, x, g) ==
    vec[t].live /\ Commit("PushBackCopy", t, PushBackCopy(M(t), x, g))

DoPushBackCopy(t) == \E x \in Values, g \in Garbage(t) : PushBackCopyAt(t, x, g)

\* v.PushBack(std::move(x))
PushBackMoveAt(t, x, g) ==
    vec[t].live /\ Commit("PushBackMove", t, PushBackMove(M(t), x, g))

DoPushBackMove(t) == \E x \in Values, g \in Garbage(t) : PushBackMoveAt(t, x, g)

\* v.Insert(v.begin() + i, x) with an lvalue x
InsertCopyAt(t, i, x, g) ==
    vec[t].live /\ i <= vec[t].size_ /\ Commit("InsertCopy", t, InsertCopy(M(t), i, x, g))

DoInsertCopy(t) ==
    \E i \in 0..vec[t].size_, x \in Values, g \in Garbage(t) : InsertCopyAt(t, i, x, g)

\* v.Insert(v.begin() + i, std::move(x))
InsertMoveAt(t, i, x, g) ==
    vec[t].live /\ i <= vec[t].size_ /\ Commit("InsertMove", t, InsertMove(M(t), i, x, g))

DoInsertMove(t) ==
    \E i \in 0..vec[t].size_, x \in Values, g \in Garbage(t) : InsertMoveAt(t, i, x, g)

DoPopBack(t) ==
    /\ vec[t].live /\ vec[t].size_ > 0
    /\ Commit("PopBack", t, PopBack(M(t)))

\* v.Erase(v.begin() + i)
EraseAt(t, i, g) ==
    vec[t].live /\ i < vec[t].size_ /\ Commit("Erase", t, Erase(M(t), i, g))

DoErase(t) == \E i \in 0..(vec[t].size_ - 1), g \in Garbage(t) : EraseAt(t, i, g)

\* v.Resize(n)
ResizeAt(t, n, g) == vec[t].live /\ Commit("Resize", t, Resize(M(t), n, g))

DoResize(t) == \E n \in 0..MaxCap, g \in Garbage(t) : ResizeAt(t, n, g)

\* v.Reserve(n)
ReserveAt(t, n, g) == vec[t].live /\ Commit("Reserve", t, Reserve(M(t), n, g))

DoReserve(t) == \E n \in 0..MaxCap, g \in Garbage(t) : ReserveAt(t, n, g)

DoClear(t) ==
    /\ vec[t].live
    /\ Commit("Clear", t, Clear(M(t)))

\* v[i] = x
DoSetElem(t) ==
    /\ vec[t].live
    /\ \E i \in 0..(vec[t].size_ - 1), x \in Values :
         Commit("SetElem", t, SetElem(M(t), i, x))

\* a call that returned or threw without changing anything
Observed(op, t, r) ==
    /\ Becomes(heap, vec)
    /\ last' = [Record(op, t, r) EXCEPT !.exc = IF r.thrown THEN "thrown" ELSE "none"]

\* v.At(i)
AtAt(t, i, g) == vec[t].live /\ \E r \in {At(M(t), i, g)} : Observed("At", t, r)

DoAt(t) == \E i \in 0..(MaxCap + 1), g \in Garbage(t) : AtAt(t, i, g)

\* v.At(i) on a const v
AtConstAt(t, i, g) ==
    vec[t].live /\ \E r \in {AtConst(M(t), i, g)} : Observed("AtConst", t, r)

DoAtConst(t) == \E i \in 0..(MaxCap + 1), g \in Garbage(t) : AtConstAt(t, i, g)

\* the operations of one object
Single(t) ==
    \/ DoConstruct(t)
    \/ DoDestroy(t)
    \/ DoPushBackCopy(t)
    \/ DoPushBackMove(t)
    \/ DoInsertCopy(t)
    \/ DoInsertMove(t)
    \/ DoPopBack(t)
    \/ DoErase(t)
    \/ DoResize(t)
    \/ DoReserve(t)
    \/ DoClear(t)
    \/ DoSetElem(t)

\* the operations that take another object
Pair(t) ==
    \/ DoCtorCopy(t)
    \/ DoCtorMove(t)
    \/ DoAssignCopy(t)
    \/ DoAssignMove(t)
    \/ DoSwap(t)

Next == Single("a")

Spec == Init /\ [][Next]_vars

NextTwo == \E t \in Vecs : Single(t) \/ Pair(t)

SpecTwo == Init /\ [][NextTwo]_vars

\* ---- actions: the operations that throw --------------------------------
\* how a call that has thrown ends: the exception reaches the caller, or,
\* after a second delete[] of one array, the process may be aborted instead
Outcomes(twice) == IF twice THEN {"thrown", "abort"} ELSE {"thrown"}

FailPoints == 0..(MaxCap + 1)

\* the operation op on object t has thrown and left res
CommitThrow(op, t, res) ==
    \E r \in {res} : \E exc \in Outcomes(r.twice) :
        /\ Becomes(r.heap, [vec EXCEPT ![t] = [Fields(r) EXCEPT !.live = vec[t].live]])
        /\ last' = [Record(op, t, r) EXCEPT !.exc = exc, !.twice = r.twice]

DoReserveThrows(t) ==
    /\ vec[t].live
    /\ \E n \in 0..MaxCap, f \in FailPoints, g \in Garbage(t) :
         /\ ReserveCanThrow(M(t), n, f)
         /\ CommitThrow("ReserveThrows", t, ReserveThrows(M(t), n, f, g))

DoResizeThrows(t) ==
    /\ vec[t].live
    /\ \E n \in 0..MaxCap, f \in FailPoints, g \in Garbage(t) :
         /\ ResizeCanThrow(M(t), n, f)
         /\ CommitThrow("ResizeThrows", t, ResizeThrows(M(t), n, f, g))

DoPushBackCopyThrows(t) ==
    /\ vec[t].live
    /\ \E x \in Values, f \in FailPoints, g \in Garbage(t) :
         /\ PushBackCopyCanThrow(M(t), f)
         /\ CommitThrow("PushBackCopyThrows", t, PushBackCopyThrows(M(t), x, f, g))

DoInsertCopyThrows(t) ==
    /\ vec[t].live
    /\ \E i \in 0..vec[t].size_, x \in Values, stage \in {1, 2},
          f \in FailPoints, g \in Garbage(t) :
         /\ InsertCopyCanThrow(M(t), i, stage, f, g)
         /\ CommitThrow("InsertCopyThrows", t, InsertCopyThrows(M(t), i, x, stage, f, g))

DoEraseThrows(t) ==
    /\ vec[t].live
    /\ \E i \in 0..(vec[t].size_ - 1), f \in FailPoints, g \in Garbage(t) :
         /\ EraseCanThrow(M(t), i, f)
         /\ CommitThrow("EraseThrows", t, EraseThrows(M(t), i, f, g))

\* SimpleVector t(other) throws: t is not constructed
DoCtorCopyThrows(t) ==
    /\ ~vec[t].live /\ vec[Other(t)].live
    /\ \E f \in FailPoints, g \in Garbage(Other(t)) :
         /\ CtorCopyCanThrow(M(Other(t)), f)
         /\ \E r \in {CtorCopyThrows(M(Other(t)), f, g)} :
              CommitThrow("CtorCopyThrows", t, [r EXCEPT !.data_ = NullPtr,
                                                        !.size_ = 0, !.capacity_ = 0])

\* t = other throws in SimpleVector copy(rhs), before swap(copy)
DoAssignCopyThrows(t) ==
    /\ vec[t].live /\ vec[Other(t)].live
    /\ \E f \in FailPoints, g \in Garbage(Other(t)) :
         /\ CtorCopyCanThrow(M(Other(t)), f)
         /\ \E r \in {CtorCopyThrows(M(Other(t)), f, g)} :
              CommitThrow("AssignCopyThrows", t, [r EXCEPT !.data_ = vec[t].data_,
                                                          !.size_ = vec[t].size_,
                                                          !.capacity_ = vec[t].capacity_])

\* the operations of t that throw
Throws(t) ==
    \/ DoReserveThrows(t)
    \/ DoResizeThrows(t)
    \/ DoPushBackCopyThrows(t)
    \/ DoInsertCopyThrows(t)
    \/ DoEraseThrows(t)
    \/ DoCtorCopyThrows(t)
    \/ DoAssignCopyThrows(t)

\* construction, copies and destruction of the two objects, and on each of
\* them the operations that throw
NextThrow ==
    \E t \in Vecs :
        \/ DoConstruct(t)
        \/ DoDestroy(t)
        \/ DoCtorCopy(t)
        \/ DoAssignCopy(t)
        \/ Throws(t)

SpecThrow == Init /\ [][NextThrow]_vars

\* ---- actions: ArrayPtr objects on their own -----------------------------
OtherPtr(x) == CHOOSE y \in Ptrs : y # x

\* the arrays no ArrayPtr object holds: their handles are with the caller
Handles == {a \in Addrs : heap[a] # << >> /\ \A y \in Ptrs : ptr[y].raw_ptr_ # a}

\* the step op of the ArrayPtr object x to the heap h and the objects pv
PtrStep(op, x, h, pv, twice) ==
    /\ Running
    /\ HeapCells(h) <= MaxHeap
    /\ heap' = h
    /\ ptr' = pv
    /\ vec' = vec
    /\ \E exc \in (IF twice THEN {"none", "abort"} ELSE {"none"}) :
         last' = [op |-> op, t |-> x, full |-> FALSE, oob |-> FALSE,
                  exc |-> exc, twice |-> twice]

\* ArrayPtr<Type> x;  and  ArrayPtr<Type> x(size);
DoPtrConstruct(x) ==
    /\ ~ptr[x].live
    /\ \E size \in 0..MaxCap :
         /\ size = 0 \/ \E a \in Addrs : heap[a] = << >>
         /\ \E c \in {ArrayPtrCtor(heap, size)} :
              PtrStep("PtrConstruct", x, c.heap,
                      [ptr EXCEPT ![x] = [live |-> TRUE, raw_ptr_ |-> c.raw_ptr_]], FALSE)

\* ArrayPtr<Type> x(raw_ptr); with a handle the caller got from Release()
DoPtrAdopt(x) ==
    /\ ~ptr[x].live
    /\ \E raw_ptr \in Handles :
         PtrStep("PtrAdopt", x, heap,
                 [ptr EXCEPT ![x] = [live |-> TRUE, raw_ptr_ |-> raw_ptr]], FALSE)

\* ArrayPtr<Type> x(std::move(other));
PtrMoveCtorAt(x, other) ==
    /\ ~ptr[x].live /\ ptr[other].live /\ other # x
    /\ \E r \in {ArrayPtrMoveCtor(ptr[other])} :
         PtrStep("PtrMoveCtor", x, heap, [ptr EXCEPT ![other] = r.other, ![x] = r.this], FALSE)

DoPtrMoveCtor(x) == PtrMoveCtorAt(x, OtherPtr(x))

\* x = std::move(rhs);
PtrMoveAssignAt(x, rhs) ==
    /\ ptr[x].live /\ ptr[rhs].live
    /\ \E r \in {ArrayPtrMoveAssign(ptr[x], ptr[rhs], x = rhs)} :
         PtrStep("PtrMoveAssign", x, heap, [ptr EXCEPT ![rhs] = r.other, ![x] = r.this], FALSE)

DoPtrMoveAssign(x) == \E rhs \in Ptrs : PtrMoveAssignAt(x, rhs)

\* x.Release(); the caller keeps the handle
DoPtrRelease(x) ==
    /\ ptr[x].live
    /\ PtrStep("PtrRelease", x, heap, [ptr EXCEPT ![x] = ArrayPtrRelease(ptr[x]).this], FALSE)

\* x.swap(other);
DoPtrSwap(x) ==
    /\ ptr[x].live /\ ptr[OtherPtr(x)].live
    /\ \E r \in {ArrayPtrSwap(ptr[x], ptr[OtherPtr(x)])} :
         PtrStep("PtrSwap", x, heap, [ptr EXCEPT ![x] = r.this, ![OtherPtr(x)] = r.other], FALSE)

\* the destructor of x; deleting an array that is already deleted is
\* undefined behaviour
DoPtrDtor(x) ==
    /\ ptr[x].live
    /\ PtrStep("PtrDtor", x, ArrayPtrDtor(heap, ptr[x].raw_ptr_),
               [ptr EXCEPT ![x] = NoPtr],
               ptr[x].raw_ptr_ # NullPtr /\ heap[ptr[x].raw_ptr_] = << >>)

\* delete[] of a handle by the caller that holds it
DoDeleteHandle ==
    \E a \in Handles : PtrStep("Delete", "p", ArrayPtrDtor(heap, a), ptr, FALSE)

InitPtr ==
    /\ heap = [a \in Addrs |-> << >>]
    /\ vec = [t \in Vecs |-> NoVec]
    /\ ptr = [x \in Ptrs |-> NoPtr]
    /\ last = [op |-> "Start", t |-> "p", full |-> FALSE, oob |-> FALSE,
               exc |-> "none", twice |-> FALSE]

NextPtr ==
    \/ \E x \in Ptrs :
          \/ DoPtrConstruct(x)
          \/ DoPtrAdopt(x)
          \/ DoPtrMoveCtor(x)
          \/ DoPtrMoveAssign(x)
          \/ DoPtrRelease(x)
          \/ DoPtrSwap(x)
          \/ DoPtrDtor(x)
    \/ DoDeleteHandle

SpecPtr == InitPtr /\ [][NextPtr]_vars

\* the operations of one object together with the checked access
NextAt == Single("a") \/ DoAt("a") \/ DoAtConst("a")

SpecAt == Init /\ [][NextAt]_vars

\* a sequence of PushBack calls on a freshly constructed array
NextPush == DoPushBackCopy("a") \/ DoPushBackMove("a")

SpecPush == Init /\ [][NextPush]_vars

\* ---- observations -------------------------------------------------------
\* size_t GetSize() const noexcept
GetSize(t) == vec[t].size_

\* size_t GetCapacity() const noexcept
GetCapacity(t) == vec[t].capacity_

\* the number of cells of the array data_ points to
Slots(h, v) == Len(Cells(h, v.data_))

\* every element of [begin(), end()) lies in the allocation
Readable(h, v) == v.size_ <= Slots(h, v)

\* the elements of [begin(), end()), when they all lie in the allocation
Elems(h, v) == SubSeq(Cells(h, v.data_), 1, v.size_)

\* s with x put before offset i
InsertAt(s, i, x) == SubSeq(s, 1, i) \o <<x>> \o SubSeq(s, i + 1, Len(s))

\* s without the element at offset i
RemoveAt(s, i) == SubSeq(s, 1, i) \o SubSeq(s, i + 2, Len(s))

Positions == 0..(MaxCap + 1)

\* ---- claims -------------------------------------------------------------
\* C1: in every reachable state of an array, 0 <= GetSize() <= GetCapacity().
SizeWithinCapacity ==
    \A t \in Vecs : vec[t].live => (0 <= GetSize(t) /\ GetSize(t) <= GetCapacity(t))

\* C2: in every reachable state GetCapacity() is the number of slots
\* allocated in the current buffer (0 when no allocation is held).
CapacityIsAllocated ==
    \A t \in Vecs : vec[t].live => GetCapacity(t) = Slots(heap, vec[t])

\* after an Insert of x at offset i that returned offset ret: the sequence is
\* the old one with x put at offset i, the size is one more, ret is offset i
Inserted(i, x, ret) ==
    /\ Readable(heap, vec["a"])
    /\ Readable(heap', vec'["a"])
    /\ vec'["a"].size_ = vec["a"].size_ + 1
    /\ Elems(heap', vec'["a"]) = InsertAt(Elems(heap, vec["a"]), i, x)
    /\ ret = i

\* C3: Insert(pos, const Type& value) at offset i in [0, size] leaves
\* old[0..i), value, old[i..size), size + 1 elements, and returns offset i.
InsertCopyInserts ==
    [][\A i \in Positions, x \in Values : \A g \in Garbage("a") :
          InsertCopyAt("a", i, x, g) =>
              Inserted(i, x, InsertCopy(M("a"), i, x, g).ret)]_vars

\* C4: Insert(pos, Type&& value) at offset i in [0, size] leaves
\* old[0..i), value, old[i..size), size + 1 elements, and returns offset i.
InsertMoveInserts ==
    [][\A i \in Positions, x \in Values : \A g \in Garbage("a") :
          InsertMoveAt("a", i, x, g) =>
              Inserted(i, x, InsertMove(M("a"), i, x, g).ret)]_vars

\* C5: Erase(pos) at offset i in [0, size) leaves old[0..i), old[i+1..size),
\* size - 1 elements, and returns offset i.
EraseRemoves ==
    [][\A i \in Positions : \A g \in Garbage("a") :
          EraseAt("a", i, g) =>
              /\ Readable(heap, vec["a"])
              /\ Readable(heap', vec'["a"])
              /\ vec'["a"].size_ = vec["a"].size_ - 1
              /\ Elems(heap', vec'["a"]) = RemoveAt(Elems(heap, vec["a"]), i)
              /\ Erase(M("a"), i, g).ret = i]_vars

\* C6: each PushBack on a freshly constructed array adds 1 to the size, keeps
\* capacity >= size, puts the value at index size - 1 and keeps every earlier
\* element at its index, also when it reallocates.
PushBackAppends ==
    [][\A x \in Values : \A g \in Garbage("a") :
          (PushBackCopyAt("a", x, g) \/ PushBackMoveAt("a", x, g)) =>
              /\ vec'["a"].size_ = vec["a"].size_ + 1
              /\ vec'["a"].capacity_ >= vec'["a"].size_
              /\ Readable(heap', vec'["a"])
              /\ Elems(heap', vec'["a"]) = Append(Elems(heap, vec["a"]), x)]_vars

\* a PushBack on a full array of at least one element has reallocated
PushBackReallocated ==
    /\ last.op \in {"PushBackCopy", "PushBackMove"}
    /\ last.full
    /\ GetSize("a") >= 2

Min(a, b) == IF a < b THEN a ELSE b

\* C8: Resize(n) with n < size sets the size to n and keeps the capacity and
\* the elements [0, n); Resize(n) with n > size keeps the elements
\* [0, old size), makes [old size, n) default and sets size = capacity = n.
ResizeResizes ==
    [][\A n \in 0..MaxCap : \A g \in Garbage("a") :
          ResizeAt("a", n, g) =>
              /\ n < GetSize("a") =>
                    /\ vec'["a"].size_ = n
                    /\ vec'["a"].capacity_ = GetCapacity("a")
                    /\ Slots(heap', vec'["a"]) = Slots(heap, vec["a"])
                    /\ \A j \in 1..Min(n, Slots(heap, vec["a"])) :
                          Cells(heap', vec'["a"].data_)[j] = Cells(heap, vec["a"].data_)[j]
              /\ n > GetSize("a") =>
                    /\ Readable(heap, vec["a"])
                    /\ Readable(heap', vec'["a"])
                    /\ vec'["a"].size_ = n
                    /\ vec'["a"].capacity_ = n
                    /\ Elems(heap', vec'["a"]) =
                          Elems(heap, vec["a"]) \o [j \in 1..(n - GetSize("a")) |-> Default]]_vars

\* C9: Reserve(c) with c <= capacity changes nothing; Reserve(c) with
\* c > capacity keeps the size and the elements and sets the capacity to c.
ReserveReserves ==
    [][\A c \in 0..MaxCap : \A g \in Garbage("a") :
          ReserveAt("a", c, g) =>
              /\ c <= GetCapacity("a") => (vec' = vec /\ heap' = heap)
              /\ c > GetCapacity("a") =>
                    /\ Readable(heap, vec["a"])
                    /\ Readable(heap', vec'["a"])
                    /\ vec'["a"].size_ = GetSize("a")
                    /\ vec'["a"].capacity_ = c
                    /\ Elems(heap', vec'["a"]) = Elems(heap, vec["a"])]_vars

\* what an observer sees of an object: its fields and its allocated cells
View(h, v) == [v EXCEPT !.data_ = Cells(h, v.data_)]

Copies == {"CtorCopy", "AssignCopy"}
Mutators == {"PushBackCopy", "PushBackMove", "InsertCopy", "InsertMove", "PopBack",
             "Erase", "Resize", "Reserve", "Clear", "SetElem"}

\* C10: a copy B of A has A's size and elements and an allocation of its own,
\* and a later mutation of one of the two leaves the other unchanged.
CopyIsIndependent ==
    [][\A t \in Vecs :
          /\ (last'.t = t /\ last'.op \in Copies /\ (DoCtorCopy(t) \/ \E g \in Garbage(Other(t)) : AssignCopyAt(t, Other(t), g))) =>
                /\ Readable(heap, vec[Other(t)])
                /\ Readable(heap', vec'[t])
                /\ vec'[t].size_ = vec[Other(t)].size_
                /\ Elems(heap', vec'[t]) = Elems(heap, vec[Other(t)])
                /\ (vec'[t].data_ = NullPtr \/ vec'[t].data_ # vec'[Other(t)].data_)
                /\ View(heap', vec'[Other(t)]) = View(heap, vec[Other(t)])
          /\ (last'.t = t /\ last'.op \in Mutators /\ Single(t)) =>
                View(heap', vec'[Other(t)]) = View(heap, vec[Other(t)])]_vars

\* the object holds nothing: size 0, capacity 0, no allocation, and its
\* destructor leaves the heap h as it is
HoldsNothing(h, v) ==
    /\ v.live
    /\ v.size_ = 0
    /\ v.capacity_ = 0
    /\ v.data_ = NullPtr
    /\ ArrayPtrDtor(h, v.data_) = h

\* C11: after move-constructing B from A, B has A's prior size, capacity and
\* elements (A's buffer), and A has size 0, capacity 0 and no allocation, so
\* that using and destroying A touches nothing.
MoveConstructTransfers ==
    [][\A t \in Vecs :
          (last'.op = "CtorMove" /\ DoCtorMove(t)) =>
              /\ View(heap', vec'[t]) = View(heap, vec[Other(t)])
              /\ HoldsNothing(heap', vec'[Other(t)])]_vars

\* an array of at least two elements with spare capacity has been moved from
MoveConstructedFromElements ==
    /\ last.op = "CtorMove"
    /\ vec[last.t].size_ >= 2
    /\ vec[last.t].capacity_ > vec[last.t].size_
    /\ vec[Other(last.t)].live

\* C12 as stated: after target = move(source) between two distinct arrays the
\* target holds the source's prior buffer, size and capacity and the source
\* has size 0, whatever the target held; assigning an array to itself (move
\* or copy) leaves its size, capacity and elements unchanged.
MoveAssignEmptiesSource ==
    [][\A t \in Vecs :
          /\ (last'.op = "AssignMove" /\ AssignMoveAt(t, Other(t))) =>
                /\ View(heap', vec'[t]) = View(heap, vec[Other(t)])
                /\ vec'[Other(t)].size_ = 0
          /\ (last'.op \in {"AssignMove", "AssignCopy"}
                 /\ (AssignMoveAt(t, t) \/ AssignCopyAt(t, t, << >>))) =>
                View(heap', vec'[t]) = View(heap, vec[t])]_vars

\* C12: after target = move(source) between two distinct arrays the target
\* holds the source's prior buffer, size and capacity and the source holds the
\* target's prior buffer, size and capacity; assigning an array to itself
\* (move or copy) leaves its size, capacity and elements unchanged.
MoveAssignExchanges ==
    [][\A t \in Vecs :
          /\ (last'.op = "AssignMove" /\ AssignMoveAt(t, Other(t))) =>
                /\ View(heap', vec'[t]) = View(heap, vec[Other(t)])
                /\ View(heap', vec'[Other(t)]) = View(heap, vec[t])
          /\ (last'.op \in {"AssignMove", "AssignCopy"}
                 /\ (AssignMoveAt(t, t) \/ \E g \in Garbage(t) : AssignCopyAt(t, t, g))) =>
                /\ View(heap', vec'[t]) = View(heap, vec[t])
                /\ View(heap', vec'[Other(t)]) = View(heap, vec[Other(t)])]_vars

\* a move assignment has left two arrays of different, non-zero sizes
MoveAssignedNonEmpty ==
    /\ last.op = "AssignMove"
    /\ vec[last.t].live /\ vec[Other(last.t)].live
    /\ vec[last.t].size_ >= 1
    /\ vec[Other(last.t)].size_ >= 1
    /\ vec[last.t].size_ # vec[Other(last.t)].size_

\* C13: At(index), mutable and const, throws out_of_range for every
\* index >= GetSize() and leaves the array unchanged; for every
\* index < GetSize() it returns the element at that index without error.
AtChecksRange ==
    [][\A i \in 0..(MaxCap + 1) : \A g \in Garbage("a") :
          /\ (last'.op = "At" /\ AtAt("a", i, g)) =>
                /\ i >= GetSize("a") =>
                      (last'.exc = "thrown" /\ heap' = heap /\ vec' = vec)
                /\ i < GetSize("a") =>
                      /\ last'.exc = "none"
                      /\ Readable(heap, vec["a"])
                      /\ At(M("a"), i, g).value = Elems(heap, vec["a"])[i + 1]
          /\ (last'.op = "AtConst" /\ AtConstAt("a", i, g)) =>
                /\ i >= GetSize("a") =>
                      (last'.exc = "thrown" /\ heap' = heap /\ vec' = vec)
                /\ i < GetSize("a") =>
                      /\ last'.exc = "none"
                      /\ Readable(heap, vec["a"])
                      /\ AtConst(M("a"), i, g).value = Elems(heap, vec["a"])[i + 1]]_vars

\* x is lexicographically less than y: they agree on the first k elements and
\* then x has ended and y has not, or x has the smaller element
LexLess(x, y) ==
    \E k \in 0..Min(Len(x), Len(y)) :
        /\ \A j \in 1..k : x[j] = y[j]
        /\ \/ k = Len(x) /\ k < Len(y)
           \/ k < Len(x) /\ k < Len(y) /\ x[k + 1] < y[k + 1]

\* C14: for two arrays a, b the operators agree with the lexicographic order
\* over the elements [0, size) only: a < b iff a is lexicographically less,
\* a == b iff equal sizes and pairwise equal elements, exactly one of
\* a < b, a == b, a > b, and <=, >=, != are the negations of >, <, ==.
ComparisonsAreLexicographic ==
    (vec["a"].live /\ vec["b"].live) =>
        \A ga \in Garbage("a"), gb \in Garbage("b") :
            LET l == Range(M("a"), ga)
                r == Range(M("b"), gb)
                x == Elems(heap, vec["a"])
                y == Elems(heap, vec["b"])
            IN  /\ Readable(heap, vec["a"]) /\ Readable(heap, vec["b"])
                /\ OpLess(l, r) <=> LexLess(x, y)
                /\ OpGreater(l, r) <=> LexLess(y, x)
                /\ OpEqual(l, r) <=> (x = y)
                /\ Cardinality({c \in {"<", "==", ">"} :
                        \/ c = "<" /\ OpLess(l, r)
                        \/ c = "==" /\ OpEqual(l, r)
                        \/ c = ">" /\ OpGreater(l, r)}) = 1
                /\ OpLessEq(l, r) <=> ~OpGreater(l, r)
                /\ OpGreaterEq(l, r) <=> ~OpLess(l, r)
                /\ OpNotEqual(l, r) <=> ~OpEqual(l, r)

\* what a caller sees of an array: its size, its capacity and its elements
\* [0, size), as far as they lie in the allocation
Logical(h, v) ==
    [live |-> v.live, size |-> v.size_, capacity |-> v.capacity_,
     elems |-> SubSeq(Cells(h, v.data_), 1, Min(v.size_, Slots(h, v)))]

\* C15: when the allocation or the transfer of an element fails during copy
\* construction, copy assignment, Reserve(c > capacity) or Resize(n >= size),
\* the failure reaches the caller and the array operated on and the copy
\* source have the size, capacity and elements they had before the call.
FailureLeavesUnchanged ==
    [][last'.op \in {"CtorCopyThrows", "AssignCopyThrows", "ReserveThrows", "ResizeThrows"} =>
          /\ last'.exc = "thrown"
          /\ \A t \in Vecs : Logical(heap', vec'[t]) = Logical(heap, vec[t])]_vars

\* C16: when an allocation or an element copy fails during PushBack(const
\* Type&) or Insert(pos, const Type&), with spare capacity or with a full
\* array, the array has the size, capacity and elements it had before the call.
CopyInsertFailureLeavesUnchanged ==
    [][last'.op \in {"PushBackCopyThrows", "InsertCopyThrows"} =>
          \A t \in Vecs : Logical(heap', vec'[t]) = Logical(heap, vec[t])]_vars

\* the objects that hold the array at address p
Owners(p) ==
    {t \in Vecs : vec[t].live /\ vec[t].data_ = p}
    \cup {x \in Ptrs : ptr[x].live /\ ptr[x].raw_ptr_ = p}

\* C18: every allocation is deallocated exactly once: no array is deleted a
\* second time, every allocated array has exactly one owner that will delete
\* it, and no object holds an array that was deleted.
DeallocatedExactlyOnce ==
    /\ ~last.twice
    /\ \A p \in Addrs : heap[p] # << >> => Cardinality(Owners(p)) = 1
    /\ \A t \in Vecs : (vec[t].live /\ vec[t].data_ # NullPtr) => heap[vec[t].data_] # << >>

\* C17: move-constructing or move-assigning an ArrayPtr from a source leaves
\* the target holding the allocation the source held and the source holding
\* none (operator bool false, Get() null); self-move-assignment changes
\* nothing; Release() returns the held handle and leaves the buffer empty.
MoveTransfersOwnership ==
    [][\A x \in Ptrs :
          /\ ((last'.op = "PtrMoveCtor" /\ PtrMoveCtorAt(x, OtherPtr(x)))
                 \/ (last'.op = "PtrMoveAssign" /\ PtrMoveAssignAt(x, OtherPtr(x)))) =>
                /\ ArrayPtrGet(ptr'[x]) = ArrayPtrGet(ptr[OtherPtr(x)])
                /\ ~ArrayPtrBool(ptr'[OtherPtr(x)])
                /\ ArrayPtrGet(ptr'[OtherPtr(x)]) = NullPtr
          /\ (last'.op = "PtrMoveAssign" /\ PtrMoveAssignAt(x, x)) =>
                (ptr' = ptr /\ heap' = heap)
          /\ (last'.op = "PtrRelease" /\ DoPtrRelease(x)) =>
                /\ ArrayPtrRelease(ptr[x]).ret = ArrayPtrGet(ptr[x])
                /\ ~ArrayPtrBool(ptr'[x])
                /\ heap' = heap]_vars

\* C19: when the array is full (size = capacity) before Insert, of either
\* overload and at any valid position, the capacity after the call is twice
\* the capacity before it, and 1 for an array of capacity 0.
InsertDoublesCapacity ==
    [][(last'.op \in {"InsertCopy", "InsertMove"} /\ GetSize("a") = GetCapacity("a")) =>
          vec'["a"].capacity_ = (IF GetCapacity("a") = 0 THEN 1 ELSE 2 * GetCapacity("a"))]_vars

\* C20: no operation called within its preconditions reads or writes an
\* element slot at an index that is not below the number of allocated slots.
NoAccessOutsideAllocation == ~last.oob

====
